---- MODULE Spec2Model ----
(***************************************************************************)
(* State-machine model of src/main.py: the HLS -> MP3 conversion service.  *)
(*                                                                         *)
(* The program state is the module-level dictionary file_info, the         *)
(* asyncio semaphore conversion_semaphore, the output files on disk, the   *)
(* position of every background coroutine (convert_m3u8_to_mp3,            *)
(* delete_file_after_delay, cleanup_old_files), the external ffmpeg        *)
(* processes, and the wall clock.  Every step between two await points of  *)
(* a coroutine is one atomic action (single-threaded asyncio event loop).  *)
(***************************************************************************)
EXTENDS Integers, FiniteSets, Sequences, TLC

(***************************************************************************)
(* Program constants.                                                      *)
(***************************************************************************)
MAX_CONCURRENT_CONVERSIONS == 3

\* delay handed to delete_file_after_delay (main.py:101)
DELETE_DELAY == 30 * 60

\* age threshold of cleanup_old_files (main.py:176)
CLEANUP_AGE == 30 * 60

\* sleep between two sweeps of cleanup_old_files (main.py:184)
CLEANUP_SLEEP == 60

\* initial value of the 'progress' field (main.py:95), '0:00:00' as a number
\* of elapsed seconds
PROGRESS_ZERO == 0

(***************************************************************************)
(* Bounds of the model.                                                    *)
(***************************************************************************)
\* number of POST /convert requests in the full specification
MaxJobs == 2

\* number of POST /convert requests in the burst specification
MaxBurstJobs == 4

\* number of times the wall clock is advanced
MaxAdvances == 2

\* largest elapsed-time token the tool prints in a progress line
MaxProgress == 1

\* number of POST /convert requests in the fair specification
MaxFairJobs == 4

\* number of POST /convert requests in the pipe specification
MaxPipeJobs == 1

\* number of lines a pipe holds
PipeCapacity == 1

\* number of lines a tool writes
MaxLines == 3

\* largest elapsed-time token in the pipe specification
MaxPipeProgress == 2

\* time.time() when the server has started (seconds since the epoch)
StartTime == 1700000000


VARIABLES
    file_info,              \* main.py:22, task_id -> dict
    conversion_semaphore,   \* main.py:26, the semaphore's free slots
    disk,                   \* the output paths that exist on the filesystem
    uuid_calls,             \* number of uuid.uuid4() calls made so far
    conv,                   \* task_id -> position of its convert_m3u8_to_mp3
    proc,                   \* task_id -> state of its ffmpeg process
    deleter,                \* task_id -> position of delete_file_after_delay
    sweep_wake,             \* time at which cleanup_old_files' sleep ends
    now,                    \* time.time()
    advances,               \* number of clock advances so far
    resp,                   \* the HTTP response produced by the last step
    created_at,             \* history: task_id -> time of its submission
    cleaned,                \* history: paths deleted by the two cleaners
    io                      \* task_id -> the two pipes of its process

vars == <<file_info, conversion_semaphore, disk, uuid_calls, conv, proc,
          deleter, sweep_wake, now, advances, resp, created_at, cleaned, io>>

NoResponse == [op |-> "none"]

(***************************************************************************)
(* Helpers for Python dictionaries.                                        *)
(***************************************************************************)
\* d.get(key, default) on a dict modelled as a record
DictGet(d, key, default) == IF key \in DOMAIN d THEN d[key] ELSE default

\* d[key] = value on a dict modelled as a function: insert or overwrite
DictSet(d, key, value) == (key :> value) @@ d

\* del d[key] for a key that is present
DictDel(d, key) == [k \in DOMAIN d \ {key} |-> d[k]]

\* the keys of file_info in insertion order; task ids are issued in
\* increasing order and never re-inserted, so this is the numeric order
RECURSIVE KeysInOrder(_)
KeysInOrder(S) ==
    IF S = {} THEN <<>>
    ELSE LET m == CHOOSE x \in S : \A y \in S : x <= y
         IN  <<m>> \o KeysInOrder(S \ {m})

(***************************************************************************)
(* Initial state: the server has started; startup_event has scheduled      *)
(* cleanup_old_files, whose first sweep saw an empty file_info and which   *)
(* now sleeps for CLEANUP_SLEEP seconds.                                   *)
(***************************************************************************)
Init ==
    /\ file_info = <<>>
    /\ conversion_semaphore = MAX_CONCURRENT_CONVERSIONS
    /\ disk = {}
    /\ uuid_calls = 0
    /\ conv = <<>>
    /\ proc = <<>>
    /\ deleter = <<>>
    /\ sweep_wake = StartTime + CLEANUP_SLEEP
    /\ now = StartTime
    /\ advances = 0
    /\ resp = NoResponse
    /\ created_at = <<>>
    /\ cleaned = {}
    /\ io = <<>>

(***************************************************************************)
(* POST /convert                                                           *)
(***************************************************************************)
\* uuid.uuid4(): the n-th call returns a value no earlier call returned
uuid4_Repeats(n) == ((n - 1) % 2) + 1

uuid4(n) == n

\* an id that no call of uuid4 returns, for requests about an unknown job
UnknownId == uuid4(0)

\* os.path.join(temp_dir, filename): mkdtemp makes a fresh directory for
\* every request, so the path is identified by the file name in it
OutputPath(filename) == filename

NewEntry_Queued(output_path, filename) ==
    [status |-> "queued", progress |-> PROGRESS_ZERO,
     output_path |-> output_path, filename |-> filename]

\* the dict stored at main.py:93-98; it has no 'creation_time' and no
\* 'error' key
NewEntry(output_path, filename) ==
    [status |-> "processing", progress |-> PROGRESS_ZERO,
     output_path |-> output_path, filename |-> filename]

\* the 'url' of a request (main.py:18-19): any string is accepted; what
\* matters is whether a playlist can be fetched and parsed from it
Urls == {"playable", "unreachable"}

\* The handler registers the job and queues the two background tasks, then
\* returns.  Starlette runs the queued tasks one after the other once the
\* response is sent: delete_file_after_delay starts only when
\* convert_m3u8_to_mp3 has returned, and not at all when it has raised.
convert_m3u8_to_mp3_endpoint(maxj, urls) ==
    /\ resp = NoResponse
    /\ uuid_calls < 2 * maxj
    /\ LET filename == uuid4(uuid_calls + 1)
           output_path == OutputPath(filename)
           task_id == uuid4(uuid_calls + 2)
       IN  /\ file_info' = DictSet(file_info, task_id,
                                   NewEntry(output_path, filename))
           /\ \E input_url \in urls :
                  conv' = DictSet(conv, task_id,
                                  [pc |-> "acquire", input_url |-> input_url,
                                   output_path |-> output_path])
           /\ proc' = DictSet(proc, task_id, "none")
           /\ deleter' = DictSet(deleter, task_id,
                                 [pc |-> "queued", filepath |-> output_path,
                                  wake |-> 0])
           /\ created_at' = DictSet(created_at, task_id, now)
           /\ resp' = [op |-> "convert", code |-> 200, task_id |-> task_id,
                       status_url |-> task_id]
    /\ uuid_calls' = uuid_calls + 2
    /\ UNCHANGED <<conversion_semaphore, disk, sweep_wake, now, advances,
                   cleaned, io>>

(***************************************************************************)
(* The pipes of a process (stdout=PIPE, stderr=PIPE, main.py:53-54).  A    *)
(* pipe holds the lines written and not yet read; it holds at most         *)
(* PipeCapacity of them (the kernel's pipe buffer and the StreamReader's   *)
(* buffer, which stops taking from the kernel above its limit), and a      *)
(* writer that finds it full waits.                                        *)
(***************************************************************************)
Fds == {"stderr", "stdout"}

\* a line with "time=" followed by the elapsed-time token
ProgressLine(time_info) == [text |-> "time=", time |-> time_info]

\* a line of diagnostic text, without "time="
Diagnostic == [text |-> "no such codec", time |-> PROGRESS_ZERO]

Lines == {Diagnostic} \cup {ProgressLine(k) : k \in 1 .. MaxPipeProgress}

\* b"time=" in line (main.py:63)
HasTime(line) == line.text = "time="

\* line.decode().split("time=")[1].split()[0] (main.py:65)
TimeInfo(line) == line.time

\* error_message.decode() of the bytes that stderr.read() returns
\* (main.py:71-73): the text of the lines, in order
RECURSIVE Decode(_)
Decode(lines) ==
    IF lines = <<>> THEN <<>> ELSE <<Head(lines).text>> \o Decode(Tail(lines))

\* The pipes of a process that has just been created, with the position of
\* the read loop (rd: the stream whose readline comes next) and of the tool
\* (pending: the write it is in; clock: the elapsed time it has reached;
\* written: the lines it has written; said: the text it has put on stderr)
NewPipes ==
    [stderr |-> <<>>, stdout |-> <<>>, rd |-> "stderr", pending |-> <<>>,
     clock |-> PROGRESS_ZERO, written |-> 0, said |-> {}]

\* stream.at_eof(): the writer has closed its end and nothing is buffered
AtEof(task_id, fd) ==
    /\ proc[task_id] \in {"exit0", "exit1"}
    /\ io[task_id][fd] = <<>>

(***************************************************************************)
(* convert_m3u8_to_mp3                                                     *)
(***************************************************************************)
ExceptHandler_StatusOnly(fi, task_id, message) ==
    IF task_id \in DOMAIN fi
    THEN DictSet(fi, task_id, DictSet(fi[task_id], "status", "failed"))
    ELSE fi

\* the except block, main.py:78-82: two subscript assignments and a
\* re-raise.  When the task's entry is gone the first assignment raises
\* KeyError and nothing is written.
ExceptHandler(fi, task_id, message) ==
    IF task_id \in DOMAIN fi
    THEN DictSet(fi, task_id,
                 DictSet(DictSet(fi[task_id], "status", "failed"),
                         "error", message))
    ELSE fi

\* str(e) of the RuntimeError of main.py:73; remainder is what
\* stderr.read() returns, the lines that the read loop has left in the pipe
RuntimeErrorMessage(remainder) ==
    <<"Failed to convert HLS to MP3: ">> \o Decode(remainder)

Raise_KeepsSlot(task_id, message) ==
    /\ file_info' = ExceptHandler(file_info, task_id, message)
    /\ conversion_semaphore' = conversion_semaphore
    /\ conv' = [conv EXCEPT ![task_id].pc = "raised"]

\* leaving the 'async with' block on an exception: the handler runs, the
\* slot is released, the exception propagates out of the task
Raise(task_id, message) ==
    /\ file_info' = ExceptHandler(file_info, task_id, message)
    /\ conversion_semaphore' = conversion_semaphore + 1
    /\ conv' = [conv EXCEPT ![task_id].pc = "raised"]

\* async with conversion_semaphore (main.py:38)
Acquire(task_id) ==
    /\ resp = NoResponse
    /\ conv[task_id].pc = "acquire"
    /\ conversion_semaphore > 0
    /\ conversion_semaphore' = conversion_semaphore - 1
    /\ conv' = [conv EXCEPT ![task_id].pc = "spawn"]
    /\ resp' = NoResponse
    /\ UNCHANGED <<file_info, disk, uuid_calls, proc, deleter, sweep_wake,
                   now, advances, created_at, cleaned, io>>

\* create_subprocess_exec succeeds (main.py:51-55)
Spawn(task_id) ==
    /\ resp = NoResponse
    /\ conv[task_id].pc = "spawn"
    /\ proc' = [proc EXCEPT ![task_id] = "started"]
    /\ io' = DictSet(io, task_id, NewPipes)
    /\ conv' = [conv EXCEPT ![task_id].pc = "reading"]
    /\ resp' = NoResponse
    /\ UNCHANGED <<file_info, conversion_semaphore, disk, uuid_calls,
                   deleter, sweep_wake, now, advances, created_at, cleaned>>

\* create_subprocess_exec raises (the executable cannot be launched)
SpawnFails(task_id) ==
    /\ resp = NoResponse
    /\ conv[task_id].pc = "spawn"
    /\ Raise(task_id, <<"[Errno 2] No such file or directory: 'ffmpeg'">>)
    /\ resp' = NoResponse
    /\ UNCHANGED <<disk, uuid_calls, proc, deleter, sweep_wake, now,
                   advances, created_at, cleaned, io>>

ReadProgress_AllEntries(task_id, time_info) ==
    /\ resp = NoResponse
    /\ conv[task_id].pc = "reading"
    /\ file_info' = [u \in DOMAIN file_info |->
                         [file_info[u] EXCEPT !.progress = time_info]]
    /\ resp' = NoResponse
    /\ UNCHANGED <<conversion_semaphore, disk, uuid_calls, conv, proc,
                   deleter, sweep_wake, now, advances, created_at, cleaned, io>>

\* A progress line with the token time_info passing through an empty pipe:
\* the tool's write and the readline that returns it, in one step
\* (main.py:61-66).  The subscript assignment raises KeyError when the
\* entry is gone; the task then leaves the guarded block without waiting
\* for or terminating the process.
ReadProgress(task_id, time_info) ==
    /\ resp = NoResponse
    /\ conv[task_id].pc = "reading"
    /\ IF task_id \in DOMAIN file_info
       THEN /\ file_info' = [file_info EXCEPT ![task_id].progress = time_info]
            /\ UNCHANGED <<conversion_semaphore, conv>>
       ELSE Raise(task_id, <<"KeyError">>)
    /\ resp' = NoResponse
    /\ UNCHANGED <<disk, uuid_calls, proc, deleter, sweep_wake, now,
                   advances, created_at, cleaned, io>>

\* one readline of the loop on the stream that is next (main.py:60-66).  It
\* returns the first line of the pipe, or b'' at end-of-file, and waits as
\* long as the pipe is empty and the tool has it open.  The pass starts
\* (at stderr) only when the test of line 58 has not left the loop.
ReadLine(task_id) ==
    /\ resp = NoResponse
    /\ conv[task_id].pc = "reading"
    /\ LET fd == io[task_id].rd
           pipe == io[task_id][fd]
           next_fd == IF fd = "stderr" THEN "stdout" ELSE "stderr"
       IN  /\ ~ (/\ fd = "stderr"
                 /\ AtEof(task_id, "stdout")
                 /\ AtEof(task_id, "stderr"))
           /\ pipe # <<>> \/ AtEof(task_id, fd)
           /\ io' = [io EXCEPT ![task_id][fd] =
                                   IF pipe = <<>> THEN <<>> ELSE Tail(pipe),
                               ![task_id].rd = next_fd]
           /\ IF pipe # <<>> /\ HasTime(Head(pipe))
              THEN IF task_id \in DOMAIN file_info
                   THEN /\ file_info' = [file_info EXCEPT ![task_id].progress =
                                             TimeInfo(Head(pipe))]
                        /\ UNCHANGED <<conversion_semaphore, conv>>
                   ELSE Raise(task_id, <<"KeyError">>)
              ELSE UNCHANGED <<file_info, conversion_semaphore, conv>>
    /\ resp' = NoResponse
    /\ UNCHANGED <<disk, uuid_calls, proc, deleter, sweep_wake, now,
                   advances, created_at, cleaned>>

\* both streams are at end-of-file at the top of a pass: the loop breaks,
\* process.wait() returns and the return code decides (main.py:58-59,
\* 68-76)
ConvertExit(task_id) ==
    /\ resp = NoResponse
    /\ conv[task_id].pc = "reading"
    /\ io[task_id].rd = "stderr"
    /\ AtEof(task_id, "stdout")
    /\ AtEof(task_id, "stderr")
    /\ IF proc[task_id] = "exit1"
       THEN /\ Raise(task_id, RuntimeErrorMessage(io[task_id].stderr))
            /\ UNCHANGED deleter
       ELSE IF task_id \in DOMAIN file_info
       THEN /\ file_info' = [file_info EXCEPT ![task_id].status = "completed"]
            /\ conversion_semaphore' = conversion_semaphore + 1
            /\ conv' = [conv EXCEPT ![task_id].pc = "returned"]
            /\ deleter' = [deleter EXCEPT
                              ![task_id].pc = "sleeping",
                              ![task_id].wake = now + DELETE_DELAY]
       ELSE /\ Raise(task_id, <<"KeyError">>)
            /\ UNCHANGED deleter
    /\ resp' = NoResponse
    /\ UNCHANGED <<disk, uuid_calls, proc, sweep_wake, now, advances,
                   created_at, cleaned, io>>

(***************************************************************************)
(* The external tool (ffmpeg -i <url> -vn ... <output_path>), a black box: *)
(* it opens its output file at some point while it runs, once it has read  *)
(* the playlist, and it ends with code 0 only after it has written the     *)
(* output.                                                                 *)
(***************************************************************************)
Alive(task_id) == proc[task_id] \in {"started", "writing"}

ToolCreatesOutput(task_id) ==
    /\ resp = NoResponse
    /\ proc[task_id] = "started"
    /\ conv[task_id].input_url = "playable"
    /\ proc' = [proc EXCEPT ![task_id] = "writing"]
    /\ disk' = disk \cup {conv[task_id].output_path}
    /\ resp' = NoResponse
    /\ UNCHANGED <<file_info, conversion_semaphore, uuid_calls, conv,
                   deleter, sweep_wake, now, advances, created_at, cleaned, io>>

\* the tool starts a write of a line to one of its two streams; the
\* elapsed time it prints does not go back
ToolBeginsWrite(task_id, fd, line) ==
    /\ resp = NoResponse
    /\ Alive(task_id)
    /\ io[task_id].pending = <<>>
    /\ io[task_id].written < MaxLines
    /\ HasTime(line) => TimeInfo(line) >= io[task_id].clock
    /\ io' = [io EXCEPT
                 ![task_id].pending = <<[fd |-> fd, line |-> line]>>,
                 ![task_id].written = @ + 1,
                 ![task_id].clock =
                     IF HasTime(line) THEN TimeInfo(line) ELSE @]
    /\ resp' = NoResponse
    /\ UNCHANGED <<file_info, conversion_semaphore, disk, uuid_calls, conv,
                   proc, deleter, sweep_wake, now, advances, created_at,
                   cleaned>>

\* the write returns once the pipe has room for the line
ToolCompletesWrite(task_id) ==
    /\ resp = NoResponse
    /\ Alive(task_id)
    /\ io[task_id].pending # <<>>
    /\ LET fd == io[task_id].pending[1].fd
           line == io[task_id].pending[1].line
       IN  /\ Len(io[task_id][fd]) < PipeCapacity
           /\ io' = [io EXCEPT
                        ![task_id][fd] = Append(@, line),
                        ![task_id].pending = <<>>,
                        ![task_id].said =
                            IF fd = "stderr" THEN @ \cup {line.text} ELSE @]
    /\ resp' = NoResponse
    /\ UNCHANGED <<file_info, conversion_semaphore, disk, uuid_calls, conv,
                   proc, deleter, sweep_wake, now, advances, created_at,
                   cleaned>>

\* the tool ends; it is not in a write
ToolExits(task_id, returncode) ==
    /\ resp = NoResponse
    /\ Alive(task_id)
    /\ io[task_id].pending = <<>>
    /\ returncode = 0 => proc[task_id] = "writing"
    /\ proc' = [proc EXCEPT ![task_id] =
                   IF returncode = 0 THEN "exit0" ELSE "exit1"]
    /\ resp' = NoResponse
    /\ UNCHANGED <<file_info, conversion_semaphore, disk, uuid_calls, conv,
                   deleter, sweep_wake, now, advances, created_at, cleaned, io>>

(***************************************************************************)
(* delete_file_after_delay                                                 *)
(***************************************************************************)
\* The body after the sleep (main.py:30-35).  os.remove raises OSError when
\* the file is not there, which is caught and logged.  'del
\* file_info[filepath]' uses the path as the key; a key that is not in the
\* dict raises KeyError, which is not an OSError and leaves the task.
delete_file_after_delay(task_id) ==
    /\ resp = NoResponse
    /\ deleter[task_id].pc = "sleeping"
    /\ now >= deleter[task_id].wake
    /\ LET filepath == deleter[task_id].filepath
       IN  IF filepath \in disk
           THEN /\ disk' = disk \ {filepath}
                /\ cleaned' = cleaned \cup {filepath}
                /\ IF filepath \in DOMAIN file_info
                   THEN /\ file_info' = DictDel(file_info, filepath)
                        /\ deleter' = [deleter EXCEPT ![task_id].pc = "done"]
                   ELSE /\ file_info' = file_info
                        /\ deleter' = [deleter EXCEPT ![task_id].pc = "raised"]
           ELSE /\ deleter' = [deleter EXCEPT ![task_id].pc = "done"]
                /\ UNCHANGED <<file_info, disk, cleaned, io>>
    /\ resp' = NoResponse
    /\ UNCHANGED <<conversion_semaphore, uuid_calls, conv, proc, sweep_wake,
                   now, advances, created_at, io>>

(***************************************************************************)
(* cleanup_old_files                                                       *)
(***************************************************************************)
\* the list comprehension of main.py:175-176, in dict order
TasksToDelete(fi, current_time) ==
    SelectSeq(KeysInOrder(DOMAIN fi),
              LAMBDA task_id :
                  current_time - DictGet(fi[task_id], "creation_time", 0)
                      > CLEANUP_AGE)

RECURSIVE CleanupLoop_StopsAtFailure(_, _, _)
CleanupLoop_StopsAtFailure(todo, fi, dsk) ==
    IF todo = <<>> THEN [file_info |-> fi, disk |-> dsk]
    ELSE LET task_id == Head(todo)
             path == fi[task_id].output_path
         IN  IF path \in dsk
             THEN CleanupLoop_StopsAtFailure(Tail(todo), DictDel(fi, task_id),
                                             dsk \ {path})
             ELSE [file_info |-> fi, disk |-> dsk]

\* the for loop of main.py:177-183 over the ids in 'todo', on the pair of
\* the registry and the disk: os.remove, then del; an OSError (the file is
\* not there) is logged and the entry stays
RECURSIVE CleanupLoop(_, _, _)
CleanupLoop(todo, fi, dsk) ==
    IF todo = <<>> THEN [file_info |-> fi, disk |-> dsk]
    ELSE LET task_id == Head(todo)
             path == fi[task_id].output_path
         IN  IF path \in dsk
             THEN CleanupLoop(Tail(todo), DictDel(fi, task_id), dsk \ {path})
             ELSE CleanupLoop(Tail(todo), fi, dsk)

\* one pass of the 'while True' loop; there is no await inside the pass
cleanup_old_files ==
    /\ resp = NoResponse
    /\ now >= sweep_wake
    /\ LET after == CleanupLoop(TasksToDelete(file_info, now), file_info, disk)
       IN  /\ file_info' = after.file_info
           /\ disk' = after.disk
           /\ cleaned' = cleaned \cup (disk \ after.disk)
    /\ sweep_wake' = now + CLEANUP_SLEEP
    /\ resp' = NoResponse
    /\ UNCHANGED <<conversion_semaphore, uuid_calls, conv, proc, deleter,
                   now, advances, created_at, io>>

(***************************************************************************)
(* The wall clock.  asyncio.sleep(d) ends no earlier than d seconds later. *)
(***************************************************************************)
Delays == {CLEANUP_SLEEP, DELETE_DELAY}

AdvanceTime(d, maxa) ==
    /\ resp = NoResponse
    /\ advances < maxa
    /\ now' = now + d
    /\ advances' = advances + 1
    /\ resp' = NoResponse
    /\ UNCHANGED <<file_info, conversion_semaphore, disk, uuid_calls, conv,
                   proc, deleter, sweep_wake, created_at, cleaned, io>>

(***************************************************************************)
(* GET /status/{task_id}                                                   *)
(***************************************************************************)
\* The response of main.py:113-126.  Line 118 reads the name 'request',
\* which is neither a parameter of the function nor a module global:
\* NameError, which the framework answers with 500.
get_conversion_status_Subscript(fi, task_id) ==
    IF task_id \in DOMAIN fi
    THEN [op |-> "status", arg |-> task_id, code |-> 200,
          status |-> fi[task_id].status]
    ELSE [op |-> "status", arg |-> task_id, code |-> 500,
          exception |-> "KeyError"]

get_conversion_status(fi, task_id) ==
    IF task_id \in DOMAIN fi
    THEN LET status_info == fi[task_id]
         IN  IF status_info.status = "completed"
             THEN [op |-> "status", arg |-> task_id, code |-> 500,
                   exception |-> "NameError"]
             ELSE IF status_info.status = "failed"
             THEN [op |-> "status", arg |-> task_id, code |-> 200,
                   status |-> status_info.status,
                   error |-> DictGet(status_info, "error", <<"Unknown error">>)]
             ELSE [op |-> "status", arg |-> task_id, code |-> 200,
                   status |-> status_info.status,
                   progress |-> status_info.progress]
    ELSE [op |-> "status", arg |-> task_id, code |-> 404,
          detail |-> "Task not found"]

GetStatus(task_id) ==
    /\ resp = NoResponse
    /\ resp' = get_conversion_status(file_info, task_id)
    /\ UNCHANGED <<file_info, conversion_semaphore, disk, uuid_calls, conv,
                   proc, deleter, sweep_wake, now, advances, created_at,
                   cleaned, io>>

(***************************************************************************)
(* GET /download/{filename}                                                *)
(***************************************************************************)
\* What the body of the try block does (main.py:132-148): the first entry
\* with that file name decides; FileResponse when its path exists, else
\* HTTPException 404; HTTPException 404 when no entry matches.
RECURSIVE DownloadLookup(_, _, _, _)
DownloadLookup(keys, fi, dsk, filename) ==
    IF keys = <<>>
    THEN [raised |-> TRUE, code |-> 404, detail |-> "File not found"]
    ELSE LET info == fi[Head(keys)]
         IN  IF info.filename = filename
             THEN IF info.output_path \in dsk
                  THEN [raised |-> FALSE, code |-> 200,
                        file |-> info.output_path]
                  ELSE [raised |-> TRUE, code |-> 404,
                        detail |-> "File not found or expired"]
             ELSE DownloadLookup(Tail(keys), fi, dsk, filename)

\* The response of main.py:129-151.  HTTPException is a subclass of
\* Exception, so every HTTPException raised in the try block is caught by
\* 'except Exception' at line 149 and replaced by HTTPException 500.
download_file(fi, dsk, filename) ==
    LET r == DownloadLookup(KeysInOrder(DOMAIN fi), fi, dsk, filename)
    IN  IF r.raised
        THEN [op |-> "download", arg |-> filename, code |-> 500,
              detail |-> <<"Unexpected error: ", r.code, r.detail>>]
        ELSE [op |-> "download", arg |-> filename, code |-> 200,
              file |-> r.file, media_type |-> "audio/mpeg"]

Download(filename) ==
    /\ resp = NoResponse
    /\ resp' = download_file(file_info, disk, filename)
    /\ UNCHANGED <<file_info, conversion_semaphore, disk, uuid_calls, conv,
                   proc, deleter, sweep_wake, now, advances, created_at,
                   cleaned, io>>

(***************************************************************************)
(* The framework sends the response of a handler before anything else      *)
(* runs: the background tasks of POST /convert start after its response.   *)
(***************************************************************************)
SendResponse ==
    /\ resp # NoResponse
    /\ resp' = NoResponse
    /\ UNCHANGED <<file_info, conversion_semaphore, disk, uuid_calls, conv,
                   proc, deleter, sweep_wake, now, advances, created_at,
                   cleaned, io>>

(***************************************************************************)
(* Specifications.                                                         *)
(***************************************************************************)
TaskIds == DOMAIN conv

\* the task ids and the file names given out so far: uuid4 is called for
\* the file name first and for the task id second (main.py:89, 91)
IssuedTaskIds == {uuid4(n) : n \in {m \in 1 .. uuid_calls : m % 2 = 0}}

IssuedFilenames == {uuid4(n) : n \in {m \in 1 .. uuid_calls : m % 2 = 1}}

\* A handler's response is sent before the next step runs (resp is then
\* NoResponse again), so every other action starts from resp = NoResponse.
Next ==
    \/ convert_m3u8_to_mp3_endpoint(MaxJobs, Urls)
    \/ \E task_id \in TaskIds : Acquire(task_id)
    \/ \E task_id \in TaskIds : Spawn(task_id)
    \/ \E task_id \in TaskIds : SpawnFails(task_id)
    \/ \E task_id \in TaskIds : \E time_info \in 1 .. MaxProgress :
           ReadProgress(task_id, time_info)
    \/ \E task_id \in TaskIds : ConvertExit(task_id)
    \/ \E task_id \in TaskIds : ToolCreatesOutput(task_id)
    \/ \E task_id \in TaskIds : \E returncode \in {0, 1} :
           ToolExits(task_id, returncode)
    \/ \E task_id \in TaskIds : delete_file_after_delay(task_id)
    \/ cleanup_old_files
    \/ \E d \in Delays : AdvanceTime(d, MaxAdvances)
    \/ \E task_id \in IssuedTaskIds \cup {UnknownId} : GetStatus(task_id)
    \/ \E filename \in IssuedFilenames \cup {UnknownId} : Download(filename)
    \/ SendResponse

Spec == Init /\ [][Next]_vars

(***************************************************************************)
(* A submission burst: more jobs than slots arrive when the server has     *)
(* been idle for CLEANUP_SLEEP seconds, so that a pass of                  *)
(* cleanup_old_files is due.  No status or download requests (they change  *)
(* nothing), every URL is a playable playlist, the tool can be launched,   *)
(* and delete_file_after_delay does not wake, its 30 minutes not having    *)
(* passed.                                                                 *)
(***************************************************************************)
InitBurst ==
    /\ file_info = <<>>
    /\ conversion_semaphore = MAX_CONCURRENT_CONVERSIONS
    /\ disk = {}
    /\ uuid_calls = 0
    /\ conv = <<>>
    /\ proc = <<>>
    /\ deleter = <<>>
    /\ sweep_wake = StartTime + CLEANUP_SLEEP
    /\ now = StartTime + CLEANUP_SLEEP
    /\ advances = 1
    /\ resp = NoResponse
    /\ created_at = <<>>
    /\ cleaned = {}
    /\ io = <<>>

NextBurst ==
    \/ convert_m3u8_to_mp3_endpoint(MaxBurstJobs, {"playable"})
    \/ \E task_id \in TaskIds : Acquire(task_id)
    \/ \E task_id \in TaskIds : Spawn(task_id)
    \/ \E task_id \in TaskIds : ReadProgress(task_id, MaxProgress)
    \/ \E task_id \in TaskIds : ConvertExit(task_id)
    \/ \E task_id \in TaskIds : ToolCreatesOutput(task_id)
    \/ \E task_id \in TaskIds : \E returncode \in {0, 1} :
           ToolExits(task_id, returncode)
    \/ cleanup_old_files
    \/ SendResponse

SpecBurst == InitBurst /\ [][NextBurst]_vars

(***************************************************************************)
(* Admission under fair scheduling: more jobs than slots, all of playable  *)
(* playlists, every launched tool ends, and the event loop runs every task *)
(* that can run.  A task waiting at 'async with conversion_semaphore' is   *)
(* woken by release() in the order of arrival (asyncio.Semaphore keeps its *)
(* waiters in a deque), so a waiter that can take a slot again and again   *)
(* does take one: strong fairness of Acquire.  The other steps stay        *)
(* enabled until taken.                                                    *)
(***************************************************************************)
\* the task ids of the jobs of this specification
FairIds == {uuid4(2 * i) : i \in 1 .. MaxFairJobs}

NextFair ==
    \/ convert_m3u8_to_mp3_endpoint(MaxFairJobs, {"playable"})
    \/ \E task_id \in TaskIds : Acquire(task_id)
    \/ \E task_id \in TaskIds : Spawn(task_id)
    \/ \E task_id \in TaskIds : ConvertExit(task_id)
    \/ \E task_id \in TaskIds : ToolCreatesOutput(task_id)
    \/ \E task_id \in TaskIds : \E returncode \in {0, 1} :
           ToolExits(task_id, returncode)
    \/ SendResponse

Fairness ==
    /\ WF_vars(SendResponse)
    /\ \A task_id \in FairIds :
           /\ SF_vars(task_id \in TaskIds /\ Acquire(task_id))
           /\ WF_vars(task_id \in TaskIds /\ Spawn(task_id))
           /\ WF_vars(task_id \in TaskIds /\ ToolExits(task_id, 1))
           /\ WF_vars(task_id \in TaskIds /\ ConvertExit(task_id))

SpecFair == Init /\ [][NextFair]_vars /\ Fairness

(***************************************************************************)
(* The read loop and the tool, line by line: one job, whose tool writes up *)
(* to MaxLines lines to its two streams in any order, before the first     *)
(* pass of cleanup_old_files.                                              *)
(***************************************************************************)
NextPipe ==
    \/ convert_m3u8_to_mp3_endpoint(MaxPipeJobs, Urls)
    \/ \E task_id \in TaskIds : Acquire(task_id)
    \/ \E task_id \in TaskIds : Spawn(task_id)
    \/ \E task_id \in TaskIds : ReadLine(task_id)
    \/ \E task_id \in TaskIds : ConvertExit(task_id)
    \/ \E task_id \in TaskIds : ToolCreatesOutput(task_id)
    \/ \E task_id \in TaskIds : \E fd \in Fds : \E line \in Lines :
           ToolBeginsWrite(task_id, fd, line)
    \/ \E task_id \in TaskIds : ToolCompletesWrite(task_id)
    \/ \E task_id \in TaskIds : \E returncode \in {0, 1} :
           ToolExits(task_id, returncode)
    \/ SendResponse

SpecPipe == Init /\ [][NextPipe]_vars

(***************************************************************************)
(* Properties.                                                             *)
(***************************************************************************)
Terminal == {"completed", "failed"}

\* a step of cleanup_old_files: every pass, and nothing else, re-arms its
\* sleep
SweepStep == sweep_wake' # sweep_wake

\* the ffmpeg processes that run
AliveTasks == {task_id \in TaskIds : Alive(task_id)}

\* C1: at most MAX_CONCURRENT_CONVERSIONS transcode processes are alive at
\* once; a further job launches its process only once a running one ended.
C1_AtMostMaxAlive == Cardinality(AliveTasks) <= MAX_CONCURRENT_CONVERSIONS

\* C2: a stored status only moves processing -> completed or processing ->
\* failed; a terminal status is never changed by any later step, and an
\* entry has status processing when it is created.
C2_StatusForwardOnly ==
    [][\A task_id \in DOMAIN file_info' :
          IF task_id \in DOMAIN file_info
          THEN \/ file_info'[task_id].status = file_info[task_id].status
               \/ /\ file_info[task_id].status = "processing"
                  /\ file_info'[task_id].status \in Terminal
          ELSE file_info'[task_id].status = "processing"]_vars

\* witness of C2: an entry is completed and a later step of its job (the
\* deferred deleter) has run while the entry was in that status
C2_Witness ==
    \E task_id \in DOMAIN file_info :
        /\ file_info[task_id].status = "completed"
        /\ deleter[task_id].pc \in {"done", "raised"}

\* C3: a pass of cleanup_old_files removes an entry only if more than 30
\* minutes have passed since the job was submitted.
C3_SweepOnlyExpired ==
    [][SweepStep =>
          \A task_id \in DOMAIN file_info :
              task_id \notin DOMAIN file_info' =>
                  now - created_at[task_id] > CLEANUP_AGE]_vars

\* C4: once a completed or failed job is older than 30 minutes, a pass of
\* cleanup_old_files leaves it absent from file_info and its file absent
\* from disk, whether or not the file existed.
C4_ExpiredGoneAfterSweep ==
    [][SweepStep =>
          \A task_id \in DOMAIN file_info :
              (/\ file_info[task_id].status \in Terminal
               /\ now - created_at[task_id] > CLEANUP_AGE)
              => /\ task_id \notin DOMAIN file_info'
                 /\ file_info[task_id].output_path \notin disk']_vars

C6_FileIffCompleted ==
    \A task_id \in TaskIds :
        conv[task_id].output_path \in disk
            <=> /\ task_id \in DOMAIN file_info
                /\ file_info[task_id].status = "completed"

\* the entries of file_info with a given file name
EntriesNamed(filename) ==
    {task_id \in DOMAIN file_info : file_info[task_id].filename = filename}

\* C7: a download of a name that no entry has, or whose entry's file is not
\* on disk, is answered 404: not with a file and not with another error.
C7_MissingIsNotFound ==
    (/\ resp.op = "download"
     /\ \A task_id \in EntriesNamed(resp.arg) :
            file_info[task_id].output_path \notin disk)
    => resp.code = 404

\* C8: a download returns a file only for a job whose stored status is
\* completed, never the partial file of a processing or failed job.
C8_FileOnlyWhenCompleted ==
    (resp.op = "download" /\ resp.code = 200)
    => \E task_id \in EntriesNamed(resp.arg) :
           file_info[task_id].status = "completed"

\* C9: a status query for a job in the registry is answered normally with
\* the stored status, and with download_url when completed, error when
\* failed, progress when processing.
C9_StatusOfKnownJob ==
    (resp.op = "status" /\ resp.arg \in DOMAIN file_info)
    => /\ resp.code = 200
       /\ resp.status = file_info[resp.arg].status
       /\ resp.status = "completed" => "download_url" \in DOMAIN resp
       /\ resp.status = "failed" => "error" \in DOMAIN resp
       /\ resp.status = "processing" => "progress" \in DOMAIN resp

\* C10: a status query for an id that is not in the registry is answered
\* 404 "Task not found" and leaves the registry unchanged.
C10_UnknownIdNotFound ==
    [][(/\ resp.op = "none"
        /\ resp'.op = "status"
        /\ resp'.arg \notin DOMAIN file_info)
       => /\ resp'.code = 404
          /\ file_info' = file_info]_vars

\* witness of C10: the query was for an id that was issued and whose entry
\* has since been removed
C10_Witness ==
    /\ resp.op = "status"
    /\ resp.arg \in IssuedTaskIds
    /\ resp.arg \notin DOMAIN file_info
    /\ resp.code = 404

\* the tasks that are inside 'async with conversion_semaphore'
InsideGuarded == {task_id \in TaskIds : conv[task_id].pc \in {"spawn", "reading"}}

\* C12: every slot that is acquired is released exactly once on every exit
\* path, so the free slots plus the tasks inside the guarded block are
\* always MAX_CONCURRENT_CONVERSIONS.
C12_SlotsConserved ==
    conversion_semaphore + Cardinality(InsideGuarded)
        = MAX_CONCURRENT_CONVERSIONS

\* witness of C12: a task has left the guarded block on the KeyError of a
\* removed entry, another on a failed spawn, and all slots are free again
C12_Witness ==
    /\ \E task_id \in TaskIds :
           /\ conv[task_id].pc = "raised"
           /\ task_id \notin DOMAIN file_info
    /\ \E task_id \in TaskIds :
           /\ conv[task_id].pc = "raised"
           /\ proc[task_id] = "none"
    /\ conversion_semaphore = MAX_CONCURRENT_CONVERSIONS

\* C15: an entry has an 'error' key iff its status is failed.
C15_ErrorIffFailed ==
    \A task_id \in DOMAIN file_info :
        "error" \in DOMAIN file_info[task_id]
            <=> file_info[task_id].status = "failed"

\* witness of C15: a failed entry with its error beside a completed entry
\* without one
C15_Witness ==
    /\ \E task_id \in DOMAIN file_info :
           /\ file_info[task_id].status = "failed"
           /\ "error" \in DOMAIN file_info[task_id]
    /\ \E task_id \in DOMAIN file_info :
           /\ file_info[task_id].status = "completed"
           /\ "error" \notin DOMAIN file_info[task_id]

\* C19: POST /convert answers without waiting for a slot; when it answers,
\* file_info holds the new task_id with status processing and progress
\* '0:00:00' and its task has not entered the guarded block; the task ids
\* and the output paths of distinct submissions are distinct.
C19_ImmediateAnswer ==
    /\ resp.op = "convert" =>
           /\ resp.code = 200
           /\ resp.task_id \in DOMAIN file_info
           /\ file_info[resp.task_id].status = "processing"
           /\ file_info[resp.task_id].progress = PROGRESS_ZERO
           /\ conv[resp.task_id].pc = "acquire"
    /\ 2 * Cardinality(TaskIds) = uuid_calls
    /\ \A t1, t2 \in TaskIds :
           t1 # t2 => conv[t1].output_path # conv[t2].output_path

\* witness of C19: the answer is given while all slots are taken
C19_Witness ==
    /\ resp.op = "convert"
    /\ conversion_semaphore = 0
    /\ Cardinality(InsideGuarded) = MAX_CONCURRENT_CONVERSIONS

\* C20: an entry is changed in place only by a step of its own transcode
\* task, which leaves every other entry as it is; no step changes the
\* output_path or filename of an entry; status and download requests
\* change nothing.
C20_OwnEntryOnly ==
    [][/\ \A u \in DOMAIN file_info \cap DOMAIN file_info' :
              /\ file_info'[u].output_path = file_info[u].output_path
              /\ file_info'[u].filename = file_info[u].filename
              /\ file_info'[u] # file_info[u] =>
                     /\ conv[u].pc \in {"spawn", "reading"}
                     /\ \A w \in DOMAIN file_info \ {u} :
                            /\ w \in DOMAIN file_info'
                            /\ file_info'[w] = file_info[w]
       /\ resp'.op \in {"status", "download"} =>
              UNCHANGED <<file_info, conversion_semaphore, disk, conv,
                          proc, deleter, sweep_wake, now>>]_vars

\* witness of C20: one job's task has updated its progress and then failed
\* while the other job's entry is as it was created
C20_Witness ==
    \E t, u \in DOMAIN file_info :
        /\ file_info[t].status = "failed"
        /\ file_info[t].progress # PROGRESS_ZERO
        /\ file_info[u] = NewEntry(conv[u].output_path, conv[u].output_path)
        /\ conv[u].pc = "reading"

\* the task ids that a pass of cleanup_old_files selects at current_time
Selected(fi, current_time) ==
    LET todo == TasksToDelete(fi, current_time)
    IN  {todo[i] : i \in DOMAIN todo}

\* C18: when os.remove fails for a selected job in a pass of
\* cleanup_old_files, the job's entry stays as it is, the other selected
\* jobs of the pass are still removed with their files, the loop goes back
\* to sleep for CLEANUP_SLEEP seconds, and the job is selected again by the
\* pass after that sleep.
C18_SweepFailureOnlyLogged ==
    [][SweepStep =>
          /\ \A task_id \in Selected(file_info, now) :
                 IF file_info[task_id].output_path \in disk
                 THEN /\ task_id \notin DOMAIN file_info'
                      /\ file_info[task_id].output_path \notin disk'
                 ELSE /\ task_id \in DOMAIN file_info'
                      /\ file_info'[task_id] = file_info[task_id]
                      /\ task_id \in Selected(file_info', now + CLEANUP_SLEEP)
          /\ sweep_wake' = now + CLEANUP_SLEEP
          /\ UNCHANGED <<conv, resp>>]_vars

\* witness of C18: the entry of task_id is there without its file while the
\* later entry of other has been removed with its file.  Entries are only
\* removed by cleanup_old_files and in dict order, so the pass that removed
\* other had failed on task_id before; the next pass is due.
C18_Witness ==
    /\ \E task_id \in DOMAIN file_info : \E other \in TaskIds :
           /\ task_id < other
           /\ file_info[task_id].output_path \notin disk
           /\ other \notin DOMAIN file_info
           /\ conv[other].output_path \in cleaned
    /\ now >= sweep_wake

\* C13: under fair scheduling, with every launched tool ending, every task
\* that waits for a slot of conversion_semaphore eventually has acquired
\* one and launched its tool.
C13_NoStarvation ==
    \A task_id \in FairIds :
        (task_id \in TaskIds /\ conv[task_id].pc = "acquire")
            ~> (/\ task_id \in TaskIds
                /\ conv[task_id].pc # "acquire"
                /\ proc[task_id] # "none")

\* witness of C13: more tools have been launched than there are slots, so a
\* task that found every slot taken has got one
C13_Witness ==
    /\ Cardinality({task_id \in TaskIds : proc[task_id] # "none"})
           > MAX_CONCURRENT_CONVERSIONS
    /\ \E task_id \in TaskIds : Alive(task_id)

\* C16: a job whose playlist cannot be fetched or parsed fails with a
\* resolution error and the tool is never launched for it.
C16_UnresolvedNeverLaunched ==
    \A task_id \in TaskIds :
        conv[task_id].input_url = "unreachable" =>
            /\ proc[task_id] = "none"
            /\ conv[task_id].pc \notin {"reading", "returned"}

\* C11: when the tool has written diagnostic text to standard error and
\* has exited with a non-zero code, and the task has ended on it, the
\* entry is failed and its error contains that text.
C11_DiagnosticCaptured ==
    \A task_id \in DOMAIN file_info \cap DOMAIN io :
        (/\ proc[task_id] = "exit1"
         /\ Diagnostic.text \in io[task_id].said
         /\ conv[task_id].pc = "raised")
        => /\ file_info[task_id].status = "failed"
           /\ \E i \in DOMAIN file_info[task_id].error :
                  file_info[task_id].error[i] = Diagnostic.text

\* C14: the progress of an entry does not go down while its status is
\* processing, and does not change once its status is completed or failed.
C14_ProgressNonDecreasing ==
    [][\A task_id \in DOMAIN file_info \cap DOMAIN file_info' :
          /\ file_info[task_id].status = "processing" =>
                 file_info'[task_id].progress >= file_info[task_id].progress
          /\ file_info[task_id].status \in Terminal =>
                 file_info'[task_id].progress = file_info[task_id].progress
      ]_vars

\* the tool waits in a write to a full pipe while the loop waits in
\* readline on the other, empty pipe: neither can go on
BlockedForever(task_id) ==
    /\ conv[task_id].pc = "reading"
    /\ Alive(task_id)
    /\ io[task_id].pending # <<>>
    /\ Len(io[task_id][io[task_id].pending[1].fd]) >= PipeCapacity
    /\ io[task_id].rd # io[task_id].pending[1].fd
    /\ io[task_id][io[task_id].rd] = <<>>

\* C17: the read loop drains both pipes, so that the tool is never blocked
\* forever in a write to a full pipe.
C17_ToolNeverBlockedForever ==
    \A task_id \in DOMAIN io : ~ BlockedForever(task_id)

=============================================================================
